---- MODULE Spec2Model ----
(***************************************************************************)
(* Model of adsb-exporter (src/main.go): two JSON snapshot files are       *)
(* polled, decoded with encoding/json into Go structs, published as        *)
(* labelled gauge series, and the aircraft series of identities that       *)
(* disappeared are retracted against the registry prevAircraftLabels.      *)
(*                                                                         *)
(* Numbers are integers (the model has no fractions).  A decoded JSON      *)
(* document is a tagged value; a Go value is modelled by the shape its     *)
(* declared type gives it.                                                 *)
(***************************************************************************)
EXTENDS Integers, Sequences, FiniteSets, TLC

VARIABLES series, prevAircraftLabels, pc, a, idx, cur, mu,
          tickC, ticks, ctxDone, feed, env, call, hist

vars == <<series, prevAircraftLabels, pc, a, idx, cur, mu,
          tickC, ticks, ctxDone, feed, env, call, hist>>

(***************************************************************************)
(* Bounds                                                                  *)
(***************************************************************************)
MaxTicks == 2

(***************************************************************************)
(* JSON values as produced by a JSON parser                                *)
(***************************************************************************)
Null == [t |-> "null"]
Num(n) == [t |-> "num", n |-> n]
Str(s) == [t |-> "str", s |-> s]
Bool(b) == [t |-> "bool", b |-> b]
Arr(elems) == [t |-> "arr", a |-> elems]
Obj(members) == [t |-> "obj", o |-> members]
EmptyObj == [t |-> "obj", o |-> [x \in {} |-> Null]]
\* bytes that are not well-formed JSON (truncated file, garbage)
Malformed == [t |-> "bad"]

\* the outcome of opening and reading a file
ReadError == [io |-> "err"]
FileBytes(j) == [io |-> "ok", json |-> j]

(***************************************************************************)
(* Go types of the decode targets                                          *)
(***************************************************************************)
TString == [k |-> "string"]
TInt == [k |-> "int"]
TFloat == [k |-> "float"]
TIface == [k |-> "iface"]
TPtr(elem) == [k |-> "ptr", elem |-> elem]
TSlice(elem) == [k |-> "slice", elem |-> elem]
TMap(elem) == [k |-> "map", elem |-> elem]
TStruct(name) == [k |-> "struct", name |-> name]

LocalStats ==
  [samples_processed |-> TInt, samples_dropped |-> TInt, modeac |-> TInt,
   modes |-> TInt, bad |-> TInt, unknown_icao |-> TInt,
   accepted |-> TSlice(TInt), signal |-> TPtr(TFloat), noise |-> TPtr(TFloat),
   peak_signal |-> TPtr(TFloat), strong_signals |-> TInt,
   gain_db |-> TPtr(TFloat)]

CPUStats == [demod |-> TInt, reader |-> TInt, background |-> TInt]

CPRStats ==
  [surface |-> TInt, airborne |-> TInt, global_ok |-> TInt,
   global_bad |-> TInt, global_range |-> TInt, global_speed |-> TInt,
   global_skipped |-> TInt, local_ok |-> TInt,
   local_aircraft_relative |-> TInt, local_receiver_relative |-> TInt,
   local_skipped |-> TInt, local_range |-> TInt, local_speed |-> TInt,
   filtered |-> TInt]

AdaptiveStats ==
  [gain_db |-> TPtr(TFloat), dynamic_range_limit_db |-> TPtr(TFloat),
   gain_changes |-> TPtr(TInt), loud_undecoded |-> TPtr(TInt),
   loud_decoded |-> TPtr(TInt), noise_dbfs |-> TPtr(TFloat),
   gain_seconds |-> TMap(TSlice(TIface))]

StatsPeriod ==
  [start |-> TFloat, end |-> TFloat,
   local |-> TPtr(TStruct("LocalStats")),
   remote |-> TPtr(TStruct("LocalStats")),
   cpu |-> TPtr(TStruct("CPUStats")),
   cpr |-> TPtr(TStruct("CPRStats")),
   tracks |-> TMap(TInt), messages |-> TInt,
   messages_by_df |-> TSlice(TInt),
   adaptive |-> TPtr(TStruct("AdaptiveStats"))]

Stats ==
  [latest |-> TStruct("StatsPeriod"), last1min |-> TStruct("StatsPeriod"),
   last5min |-> TStruct("StatsPeriod"), last15min |-> TStruct("StatsPeriod"),
   total |-> TStruct("StatsPeriod")]

Aircraft ==
  [hex |-> TString, flight |-> TString, alt_baro |-> TIface,
   alt_geom |-> TIface, gs |-> TPtr(TFloat), ias |-> TPtr(TFloat),
   tas |-> TPtr(TFloat), mach |-> TPtr(TFloat), track |-> TPtr(TFloat),
   track_rate |-> TPtr(TFloat), roll |-> TPtr(TFloat),
   mag_heading |-> TPtr(TFloat), true_heading |-> TPtr(TFloat),
   baro_rate |-> TPtr(TFloat), geom_rate |-> TPtr(TFloat),
   squawk |-> TString, emergency |-> TString, category |-> TString,
   nav_qnh |-> TPtr(TFloat), nav_altitude_mcp |-> TPtr(TFloat),
   nav_altitude_fms |-> TPtr(TFloat), nav_heading |-> TPtr(TFloat),
   nav_modes |-> TIface, lat |-> TPtr(TFloat), lon |-> TPtr(TFloat),
   nic |-> TPtr(TInt), rc |-> TPtr(TInt), seen_pos |-> TPtr(TFloat),
   version |-> TPtr(TInt), nic_baro |-> TPtr(TInt), nac_p |-> TPtr(TInt),
   nac_v |-> TPtr(TInt), sil |-> TPtr(TInt), sil_type |-> TString,
   gva |-> TPtr(TInt), sda |-> TPtr(TInt), messages |-> TInt,
   seen |-> TPtr(TFloat), rssi |-> TPtr(TFloat), mlat |-> TIface,
   tisb |-> TIface]

AircraftsFile ==
  [now |-> TFloat, messages |-> TInt,
   aircraft |-> TSlice(TStruct("Aircraft"))]

\* the fields (JSON key |-> Go type) of a named struct type
StructFields(name) ==
  CASE name = "LocalStats" -> LocalStats
    [] name = "CPUStats" -> CPUStats
    [] name = "CPRStats" -> CPRStats
    [] name = "AdaptiveStats" -> AdaptiveStats
    [] name = "StatsPeriod" -> StatsPeriod
    [] name = "Stats" -> Stats
    [] name = "Aircraft" -> Aircraft
    [] name = "AircraftsFile" -> AircraftsFile

(***************************************************************************)
(* encoding/json: Unmarshal of a parsed value into a fresh Go value.       *)
(* The result is [err, v]; err is TRUE when Unmarshal returns an error     *)
(* (an UnmarshalTypeError somewhere in the document).                      *)
(***************************************************************************)
NilPtr == [set |-> FALSE]
PtrTo(v) == [set |-> TRUE, v |-> v]
EmptyMap == [x \in {} |-> 0]

RECURSIVE Zero(_)
Zero(ty) ==
  CASE ty.k = "string" -> ""
    [] ty.k \in {"int", "float"} -> 0
    [] ty.k = "iface" -> Null
    [] ty.k = "ptr" -> NilPtr
    [] ty.k = "slice" -> << >>
    [] ty.k = "map" -> EmptyMap
    [] ty.k = "struct" ->
         [f \in DOMAIN StructFields(ty.name) |-> Zero(StructFields(ty.name)[f])]

RECURSIVE decode(_, _)
decode(ty, j) ==
  IF j.t = "null" THEN [err |-> FALSE, v |-> Zero(ty)]
  ELSE CASE ty.k = "string" ->
              IF j.t = "str" THEN [err |-> FALSE, v |-> j.s]
              ELSE [err |-> TRUE, v |-> ""]
         [] ty.k \in {"int", "float"} ->
              IF j.t = "num" THEN [err |-> FALSE, v |-> j.n]
              ELSE [err |-> TRUE, v |-> 0]
         [] ty.k = "iface" -> [err |-> FALSE, v |-> j]
         [] ty.k = "ptr" ->
              LET r == decode(ty.elem, j)
              IN [err |-> r.err, v |-> PtrTo(r.v)]
         [] ty.k = "slice" ->
              IF j.t = "arr"
              THEN LET rs == [i \in 1..Len(j.a) |-> decode(ty.elem, j.a[i])]
                   IN [err |-> \E i \in 1..Len(j.a) : rs[i].err,
                       v |-> [i \in 1..Len(j.a) |-> rs[i].v]]
              ELSE [err |-> TRUE, v |-> << >>]
         [] ty.k = "map" ->
              IF j.t = "obj"
              THEN LET rs == [m \in DOMAIN j.o |-> decode(ty.elem, j.o[m])]
                   IN [err |-> \E m \in DOMAIN j.o : rs[m].err,
                       v |-> [m \in DOMAIN j.o |-> rs[m].v]]
              ELSE [err |-> TRUE, v |-> EmptyMap]
         [] ty.k = "struct" ->
              IF j.t = "obj"
              THEN LET fs == StructFields(ty.name)
                       rs == [f \in DOMAIN fs |->
                                IF f \in DOMAIN j.o THEN decode(fs[f], j.o[f])
                                ELSE [err |-> FALSE, v |-> Zero(fs[f])]]
                   IN [err |-> \E f \in DOMAIN fs : rs[f].err,
                       v |-> [f \in DOMAIN fs |-> rs[f].v]]
              ELSE [err |-> TRUE, v |-> Zero(ty)]

\* json.Unmarshal(b, &x) with x a zero value of struct type name
Unmarshal(j, name) ==
  IF j.t = "bad" THEN [err |-> TRUE, v |-> Zero(TStruct(name))]
  ELSE decode(TStruct(name), j)

(***************************************************************************)
(* The metric surface: a map from SeriesKey <<family, label values>> to    *)
(* the gauge value.  GaugeVec.With(...).Set(v) creates or overwrites,      *)
(* GaugeVec.Delete(labels) removes the series with exactly those labels.   *)
(***************************************************************************)
NoSeries == [k \in {} |-> 0]

\* a set of <<key, value>> assignments with distinct keys, as a map
AsMap(assignments) ==
  [k \in {p[1] : p \in assignments} |->
     (CHOOSE p \in assignments : p[1] = k)[2]]

\* a gauge that accumulates (Add) where the code overwrites (Set)
AddAll(s, assignments) ==
  [k \in (DOMAIN s) \cup (DOMAIN AsMap(assignments)) |->
     IF k \in DOMAIN AsMap(assignments)
     THEN (IF k \in DOMAIN s THEN s[k] ELSE 0) + AsMap(assignments)[k]
     ELSE s[k]]

\* apply Set for every assignment
SetAll(s, assignments) == AsMap(assignments) @@ s

DeleteAll(s, keys) == [k \in (DOMAIN s) \ keys |-> s[k]]

(***************************************************************************)
(* strconv / fmt                                                           *)
(***************************************************************************)
\* the decimal numerals the model's strings can spell
Numerals == 0..12

\* float64: the finite values are the integers up to MaxFinite in size; the
\* three values beyond them are NaN and the two infinities
MaxFinite == 999
PosInf == MaxFinite + 1
NegInf == 0 - PosInf
NaN == MaxFinite + 2
IsFinite(f) == f \in (0 - MaxFinite)..MaxFinite

\* the spellings strconv.ParseFloat accepts for the non-finite values
NonFiniteSpellings ==
  [NaN |-> NaN, nan |-> NaN, Inf |-> PosInf, inf |-> PosInf,
   Infinity |-> PosInf, infinity |-> PosInf]

\* strconv.ParseFloat(t, 64): [ok, f]; besides the decimal numerals it
\* accepts "NaN", "Inf" and "Infinity" in any case, with an optional sign
ParseFloat(t) ==
  IF \E n \in Numerals : ToString(n) = t
  THEN [ok |-> TRUE, f |-> CHOOSE n \in Numerals : ToString(n) = t]
  ELSE IF t \in DOMAIN NonFiniteSpellings
  THEN [ok |-> TRUE, f |-> NonFiniteSpellings[t]]
  ELSE IF t \in {"+Inf", "+inf"} THEN [ok |-> TRUE, f |-> PosInf]
  ELSE IF t \in {"-Inf", "-inf"} THEN [ok |-> TRUE, f |-> NegInf]
  ELSE [ok |-> FALSE, f |-> 0]

\* strconv.Itoa
Itoa(i) == ToString(i)

\* fmt.Sprintf("%v", g) of a float64: an integral value prints as its
\* numeral, the others as NaN, +Inf, -Inf
Sprintv(g) ==
  IF g = NaN THEN "NaN"
  ELSE IF g = PosInf THEN "+Inf"
  ELSE IF g = NegInf THEN "-Inf"
  ELSE ToString(g)

\* only strings are coerced
numericFromInterfaceStringsOnly(v) ==
  CASE v.t = "str" -> ParseFloat(v.s)
    [] OTHER -> [ok |-> FALSE, f |-> 0]

\* a string that does not parse counts as 0
numericFromInterfaceLenient(v) ==
  CASE v.t = "null" -> [ok |-> FALSE, f |-> 0]
    [] v.t = "num" -> [ok |-> TRUE, f |-> v.n]
    [] v.t = "str" -> [ok |-> TRUE, f |-> ParseFloat(v.s).f]
    [] OTHER -> [ok |-> FALSE, f |-> 0]

numericFromInterface(v) ==
  CASE v.t = "null" -> [ok |-> FALSE, f |-> 0]
    [] v.t = "num" -> [ok |-> TRUE, f |-> v.n]
    [] v.t = "str" -> ParseFloat(v.s)
    [] OTHER -> [ok |-> FALSE, f |-> 0]

(***************************************************************************)
(* applyStatsPeriod                                                        *)
(***************************************************************************)
\* plain numeric fields of a sub-record: always Set when the record is there
PlainAssign(rec, name, families) ==
  {<<<<families[f], <<name>>>>, rec[f]>> : f \in DOMAIN families}

\* pointer fields: Set only when non-nil
PtrAssign(rec, name, families) ==
  {<<<<families[f], <<name>>>>, rec[f].v>> :
     f \in {g \in DOMAIN families : rec[g].set}}

RECURSIVE SumSeq(_)
SumSeq(q) == IF q = << >> THEN 0 ELSE q[1] + SumSeq(Tail(q))

\* the accepted loop: one series per index and the total
AcceptedAssign(accepted, name, byErrors, total) ==
  IF Len(accepted) > 0
  THEN {<<<<byErrors, <<name, Itoa(i - 1)>>>>, accepted[i]>> :
          i \in 1..Len(accepted)}
       \cup {<<<<total, <<name>>>>, SumSeq(accepted)>>}
  ELSE {}

LocalPlain ==
  [modes |-> "metricsLocalModes", bad |-> "metricsLocalBad",
   samples_processed |-> "metricsLocalSamplesProcessed",
   samples_dropped |-> "metricsLocalSamplesDropped",
   modeac |-> "metricsLocalModeAC",
   unknown_icao |-> "metricsLocalUnknownICAO",
   strong_signals |-> "metricsLocalStrongSignals"]

LocalPtr ==
  [signal |-> "metricsLocalSignal", noise |-> "metricsLocalNoise",
   peak_signal |-> "metricsLocalPeakSignal", gain_db |-> "metricsLocalGainDB"]

RemotePlain ==
  [modeac |-> "metricsRemoteModeAC", modes |-> "metricsRemoteModes",
   bad |-> "metricsRemoteBad", unknown_icao |-> "metricsRemoteUnknownICAO"]

CPUPlain ==
  [demod |-> "metricsCPUDemod", reader |-> "metricsCPUReader",
   background |-> "metricsCPUBackground"]

CPRPlain ==
  [surface |-> "metricsCPRSurface", airborne |-> "metricsCPRAirborne",
   global_ok |-> "metricsCPRGlobalOk", global_bad |-> "metricsCPRGlobalBad",
   global_range |-> "metricsCPRGlobalRange",
   global_speed |-> "metricsCPRGlobalSpeed",
   global_skipped |-> "metricsCPRGlobalSkipped",
   local_ok |-> "metricsCPRLocalOk",
   local_aircraft_relative |-> "metricsCPRLocalAircraftRelative",
   local_receiver_relative |-> "metricsCPRLocalReceiverRelative",
   local_skipped |-> "metricsCPRLocalSkipped",
   local_range |-> "metricsCPRLocalRange",
   local_speed |-> "metricsCPRLocalSpeed", filtered |-> "metricsCPRFiltered"]

TracksKeys ==
  [all |-> "metricsTracksAll", single_message |-> "metricsTracksSingleMessage",
   unreliable |-> "metricsTracksUnreliable"]

AdaptivePtr ==
  [gain_db |-> "metricsAdaptiveGainDB",
   dynamic_range_limit_db |-> "metricsAdaptiveDynamicRangeLimitDB",
   gain_changes |-> "metricsAdaptiveGainChanges",
   loud_undecoded |-> "metricsAdaptiveLoudUndecoded",
   loud_decoded |-> "metricsAdaptiveLoudDecoded",
   noise_dbfs |-> "metricsAdaptiveNoiseDBFS"]

\* an entry counts as soon as its first element coerces
GainSecondsAssignFirstOnly(gainSeconds, name) ==
  {<<<<"metricsAdaptiveGainSeconds",
       <<name, step, Sprintv(numericFromInterface(gainSeconds[step][1]).f)>>>>,
     numericFromInterface(gainSeconds[step][1]).f>> :
     step \in {st \in DOMAIN gainSeconds :
                 /\ Len(gainSeconds[st]) >= 1
                 /\ numericFromInterface(gainSeconds[st][1]).ok}}

\* gain_seconds: step |-> [gain_db, seconds], both coerced
GainSecondsAssign(gainSeconds, name) ==
  {<<<<"metricsAdaptiveGainSeconds",
       <<name, step, Sprintv(numericFromInterface(gainSeconds[step][1]).f)>>>>,
     numericFromInterface(gainSeconds[step][2]).f>> :
     step \in {st \in DOMAIN gainSeconds :
                 /\ Len(gainSeconds[st]) >= 2
                 /\ numericFromInterface(gainSeconds[st][1]).ok
                 /\ numericFromInterface(gainSeconds[st][2]).ok}}

\* the counter is published only when it is not zero
MessagesAssignNonZero(name, p) ==
  IF p.messages = 0 THEN {} ELSE {<<<<"metricsMessages", <<name>>>>, p.messages>>}

\* metricsMessages.WithLabelValues(name).Set(float64(p.Messages))
MessagesAssign(name, p) == {<<<<"metricsMessages", <<name>>>>, p.messages>>}

\* every (SeriesKey, value) one call of applyStatsPeriod sets
StatsAssign(name, p) ==
  MessagesAssign(name, p)
  \cup (IF p.local.set
        THEN PlainAssign(p.local.v, name, LocalPlain)
             \cup AcceptedAssign(p.local.v.accepted, name,
                                 "metricsLocalAcceptedByErrors",
                                 "metricsLocalAcceptedTotal")
             \cup PtrAssign(p.local.v, name, LocalPtr)
        ELSE {})
  \cup (IF p.remote.set
        THEN PlainAssign(p.remote.v, name, RemotePlain)
             \cup AcceptedAssign(p.remote.v.accepted, name,
                                 "metricsRemoteAcceptedByErrors",
                                 "metricsRemoteAcceptedTotal")
        ELSE {})
  \cup (IF p.cpu.set THEN PlainAssign(p.cpu.v, name, CPUPlain) ELSE {})
  \cup (IF p.cpr.set THEN PlainAssign(p.cpr.v, name, CPRPlain) ELSE {})
  \cup {<<<<TracksKeys[t], <<name>>>>, p.tracks[t]>> :
          t \in (DOMAIN TracksKeys) \cap (DOMAIN p.tracks)}
  \cup (IF p.adaptive.set
        THEN PtrAssign(p.adaptive.v, name, AdaptivePtr)
             \cup GainSecondsAssign(p.adaptive.v.gain_seconds, name)
        ELSE {})
  \cup {<<<<"metricsMessagesByDF", <<name, Itoa(i - 1)>>>>,
          p.messages_by_df[i]>> : i \in 1..Len(p.messages_by_df)}

applyStatsPeriod(s, name, p) == SetAll(s, StatsAssign(name, p))

Periods == <<"latest", "last1min", "last5min", "last15min", "total">>

\* the five applyStatsPeriod calls of updateStatsFromFile, in order
RECURSIVE applyStatsPeriods(_, _, _)
applyStatsPeriods(s, st, n) ==
  IF n = 0 THEN s
  ELSE applyStatsPeriod(applyStatsPeriods(s, st, n - 1),
                        Periods[n], st[Periods[n]])

(***************************************************************************)
(* updateAircraftsFromFile: projection of one decoded Aircraft             *)
(***************************************************************************)
possibleModes == {"autopilot", "vnav", "althold", "approach", "lnav", "tcas"}

\* the families set as family.With(labels).Set(*ac.Field) when non-nil
AircraftPtr ==
  [gs |-> "metricAircraftGS", ias |-> "metricAircraftIAS",
   tas |-> "metricAircraftTAS", mach |-> "metricAircraftMach",
   track |-> "metricAircraftTrack", track_rate |-> "metricAircraftTrackRate",
   roll |-> "metricAircraftRoll", mag_heading |-> "metricAircraftMagHeading",
   true_heading |-> "metricAircraftTrueHeading",
   baro_rate |-> "metricAircraftBaroRate",
   geom_rate |-> "metricAircraftGeomRate", lat |-> "metricAircraftLat",
   lon |-> "metricAircraftLon", nav_qnh |-> "metricAircraftNavQNH",
   nav_heading |-> "metricAircraftNavHeading",
   nav_altitude_mcp |-> "metricAircraftNavAltMCP",
   nav_altitude_fms |-> "metricAircraftNavAltFMS", nic |-> "metricAircraftNIC",
   rc |-> "metricAircraftRC", nic_baro |-> "metricAircraftNICBaro",
   nac_p |-> "metricAircraftNACP", nac_v |-> "metricAircraftNACV",
   sil |-> "metricAircraftSIL", gva |-> "metricAircraftGVA",
   sda |-> "metricAircraftSDA", version |-> "metricAircraftVersion",
   seen_pos |-> "metricAircraftSeenPos", seen |-> "metricAircraftSeen",
   rssi |-> "metricAircraftRssi"]

\* the families set through numericFromInterface
AircraftIface ==
  [alt_baro |-> "metricAircraftAltBaro", alt_geom |-> "metricAircraftAltGeom"]

\* the info families: the string value is a fourth label
AircraftInfo ==
  [squawk |-> "metricAircraftSquawk", emergency |-> "metricAircraftEmergency",
   sil_type |-> "metricAircraftSILTypeInfo"]

\* labels := prometheus.Labels{"hex": hex, "flight": flight, "category": category}
LabelsOf(ac) == <<ac.hex, ac.flight, ac.category>>

\* key := hex + "|" + flight + "|" + category
KeyOf(ac) == ac.hex \o "|" \o ac.flight \o "|" \o ac.category

\* the array is never read: no flag counts as set
ModesNone(navModes) == {}

\* a string value counts as the one flag it names
ModesOfLoose(navModes) ==
  IF navModes.t = "arr"
  THEN {navModes.a[i].s :
          i \in {n \in 1..Len(navModes.a) : navModes.a[n].t = "str"}}
  ELSE IF navModes.t = "str" THEN {navModes.s}
  ELSE {}

\* modes[modeStr] = true for the strings of a nav_modes array
ModesOf(navModes) ==
  IF navModes.t = "arr"
  THEN {navModes.a[i].s :
          i \in {n \in 1..Len(navModes.a) : navModes.a[n].t = "str"}}
  ELSE {}

\* every (SeriesKey, value) the loop body sets for one aircraft
AircraftAssign(ac) ==
  LET labels == LabelsOf(ac)
  IN {<<<<AircraftIface[f], labels>>, numericFromInterface(ac[f]).f>> :
        f \in {g \in DOMAIN AircraftIface : numericFromInterface(ac[g]).ok}}
     \cup {<<<<AircraftPtr[f], labels>>, ac[f].v>> :
             f \in {g \in DOMAIN AircraftPtr : ac[g].set}}
     \cup (IF ac.nav_modes.t # "null"
           THEN {<<<<"metricAircraftNavModeActive", labels \o <<mode>>>>,
                   IF mode \in ModesOf(ac.nav_modes) THEN 1 ELSE 0>> :
                   mode \in possibleModes}
           ELSE {})
     \cup {<<<<"metricAircraftMessages", labels>>, ac.messages>>}
     \cup {<<<<AircraftInfo[f], labels \o <<ac[f]>>>>, 1>> :
             f \in {g \in DOMAIN AircraftInfo : ac[g] # ""}}

\* the SeriesKeys the stale branch deletes for one registry entry
deletedFamilies ==
  {AircraftIface[f] : f \in DOMAIN AircraftIface}
  \cup {AircraftPtr[f] : f \in DOMAIN AircraftPtr}
  \cup {"metricAircraftMessages"}

StaleKeys(labels) ==
  {<<fam, labels>> : fam \in deletedFamilies}
  \cup {<<"metricAircraftNavModeActive", labels \o <<mode>>>> :
          mode \in possibleModes}

NoLabels == [k \in {} |-> << >>]

(***************************************************************************)
(* The files the pollers may find on disk                                  *)
(***************************************************************************)
AircraftDoc(recs) ==
  FileBytes(Obj([now |-> Num(1), messages |-> Num(2), aircraft |-> Arr(recs)]))

recA1 ==
  Obj([hex |-> Str("A"), gs |-> Num(3), squawk |-> Str("X"),
       nav_modes |-> Arr(<<Str("autopilot"), Str("tcas"), Str("warp"), Num(1)>>),
       alt_baro |-> Num(9),
       messages |-> Num(5)])
recA2 ==
  Obj([hex |-> Str("A"), squawk |-> Str("Y"), alt_baro |-> Str("ground"),
       alt_geom |-> Num(8), track |-> Num(2), messages |-> Num(6)])
recB1 ==
  Obj([hex |-> Str("B"), flight |-> Str("F"), gs |-> Num(4),
       nav_modes |-> Arr(<< >>), emergency |-> Str("none"),
       messages |-> Num(1)])
\* gs is declared *float64 and arrives as a string
recB2 ==
  Obj([hex |-> Str("B"), flight |-> Str("F"), gs |-> Str("fast"),
       messages |-> Num(2)])
\* alt_baro, alt_geom and nav_modes of other shapes than the usual ones
recN ==
  Obj([hex |-> Str("N"), alt_baro |-> Str("NaN"), alt_geom |-> Str("7"),
       nav_modes |-> Str("autopilot"), gs |-> Num(2), messages |-> Num(3)])
recO ==
  Obj([hex |-> Str("O"), alt_baro |-> Bool(TRUE), alt_geom |-> Arr(<<Num(1)>>),
       nav_modes |-> Obj([autopilot |-> Bool(TRUE)]), messages |-> Num(4)])
recI ==
  Obj([hex |-> Str("I"), alt_baro |-> Str("-Inf"),
       alt_geom |-> Obj([ft |-> Num(1)]), messages |-> Num(1)])
\* two label tuples whose registry keys coincide
recP == Obj([hex |-> Str("a|b"), gs |-> Num(1)])
recQ == Obj([hex |-> Str("a"), flight |-> Str("b|"), gs |-> Num(2)])

AircraftFiles ==
  {ReadError,
   FileBytes(Malformed),
   FileBytes(Null),
   FileBytes(Arr(<< >>)),
   FileBytes(Obj([now |-> Num(1)])),
   AircraftDoc(<< >>),
   AircraftDoc(<<recA1, recB1>>),
   AircraftDoc(<<recA2>>),
   AircraftDoc(<<recA1, recB2>>),
   AircraftDoc(<<recA1, recA2>>),
   AircraftDoc(<<recP, recQ>>),
   AircraftDoc(<<recP>>),
   AircraftDoc(<<recN, recO, recI>>)}

periodFull ==
  Obj([messages |-> Num(7),
       local |-> Obj([modes |-> Num(3), accepted |-> Arr(<<Num(1), Num(2)>>),
                      signal |-> Num(4)]),
       remote |-> Obj([modes |-> Num(1), accepted |-> Arr(<<Num(2)>>)]),
       cpu |-> Obj([demod |-> Num(5)]),
       cpr |-> Obj([airborne |-> Num(6)]),
       tracks |-> Obj([all |-> Num(8)]),
       messages_by_df |-> Arr(<<Num(1), Num(2)>>),
       adaptive |-> Obj([gain_db |-> Num(4),
                         gain_seconds |->
                           Obj([s0 |-> Arr(<<Num(5), Num(6)>>),
                                s1 |-> Arr(<<Str("7"), Str("8")>>),
                                s2 |-> Arr(<<Num(9)>>),
                                s3 |-> Arr(<<Str("high"), Num(1)>>),
                                s4 |-> Arr(<<Num(2), Bool(TRUE)>>),
                                s5 |-> Arr(<<Num(3), Num(4), Str("x")>>),
                                s6 |-> Arr(<< >>)])])])
periodLess ==
  Obj([messages |-> Num(0),
       local |-> Obj([accepted |-> Arr(<<Num(3)>>)]),
       remote |-> Obj([accepted |-> Arr(<< >>)]),
       messages_by_df |-> Arr(<<Num(4)>>),
       adaptive |-> Obj([gain_seconds |->
                           Obj([s0 |-> Arr(<<Num(6), Num(2)>>)])])])
periodEmptySubs ==
  Obj([messages |-> Num(1), local |-> EmptyObj, remote |-> EmptyObj,
       cpu |-> EmptyObj, cpr |-> EmptyObj, adaptive |-> EmptyObj])

StatsFiles ==
  {ReadError,
   FileBytes(Malformed),
   FileBytes(Obj([latest |-> Obj([messages |-> Str("many")])])),
   FileBytes(Obj([latest |-> Obj([messages |-> Num(42)])])),
   FileBytes(Obj([latest |-> periodFull, last5min |-> periodEmptySubs,
                  total |-> periodLess])),
   FileBytes(Obj([latest |-> periodLess, total |-> periodFull]))}

(***************************************************************************)
(* State                                                                   *)
(*   series              the exposed metric surface                        *)
(*   prevAircraftLabels  the registry: key |-> labels                      *)
(*   pc                  where each thread stands: main (initial load,     *)
(*                       goroutine start, wait, exit) and the ticker       *)
(*                       goroutine ("poller")                              *)
(*   a, idx, cur         per thread, the locals of its                     *)
(*                       updateAircraftsFromFile in flight                 *)
(*   mu                  the holder of prevAircraftLabelsMu, or "free"     *)
(*   tickC               a tick is waiting in ticker.C                     *)
(*   ticks               ticks delivered so far                            *)
(*   ctxDone             the signal context is cancelled                   *)
(*   feed                the files the writer of STATS_PATH and            *)
(*                       AIRCRAFTS_PATH may leave there during this run    *)
(*   env                 the value of INTERVAL_SECONDS in the environment  *)
(*   call                history: the update call in flight or just        *)
(*                       returned (its file, its error, the surface and    *)
(*                       registry at its entry)                            *)
(*   hist                history: the file of the latest successful poll   *)
(*                       of each kind before that call, and whether an     *)
(*                       aircraft poll has failed since                    *)
(***************************************************************************)
Threads == {"main", "poller"}

\* a run sees every stats file next to a plain aircraft feed, or every
\* aircraft file next to a plain stats feed
Feeds ==
  {[stats |-> StatsFiles,
    aircrafts |-> {ReadError, AircraftDoc(<<recA1, recB1>>)}],
   [stats |-> {ReadError,
               FileBytes(Obj([latest |-> Obj([messages |-> Num(42)])]))},
    aircrafts |-> AircraftFiles]}

\* int and time.Duration are 64 bits wide and a second is 10^9 units; the
\* model keeps the two's-complement arithmetic at WordBits bits with a
\* second of Second units
WordBits == 8
MaxInt == 2 ^ (WordBits - 1) - 1
MinInt == 0 - MaxInt - 1
Second == 10
DefaultIntervalSec == 5

\* the value of a product kept in a signed word
Wrap(x) == ((x - MinInt) % (2 ^ WordBits)) + MinInt

\* strconv.Atoi: [ok, n]; a numeral outside the range of int is an error
Atoi(t) ==
  IF \E n \in MinInt..MaxInt : ToString(n) = t
  THEN [ok |-> TRUE, n |-> CHOOSE n \in MinInt..MaxInt : ToString(n) = t]
  ELSE [ok |-> FALSE, n |-> 0]

\* getenv(key, def) of a variable whose value is v ("" when unset)
getenv(v, def) == IF v # "" THEN v ELSE def

\* intervalSec after the check of the parse
intervalSec(v) ==
  LET r == Atoi(getenv(v, ToString(DefaultIntervalSec)))
  IN IF ~r.ok \/ r.n <= 0 THEN DefaultIntervalSec ELSE r.n

\* interval := time.Duration(intervalSec) * time.Second
interval(v) == Wrap(intervalSec(v) * Second)

\* the values of INTERVAL_SECONDS: unset, whole numbers, zero, negative,
\* not a numeral, and numerals beyond the range of int
IntervalValues ==
  {"", "5", "3", "0", "-2", "abc", "2.5", "12", "13", "26", "200"}

\* a run has INTERVAL_SECONDS unset and one of the feeds, or any value of
\* INTERVAL_SECONDS and files that cannot be read
Runs ==
  {[feed |-> f, env |-> ""] : f \in Feeds}
  \cup {[feed |-> [stats |-> {ReadError}, aircrafts |-> {ReadError}],
         env |-> v] : v \in IntervalValues}

Snapshot == [series |-> series, prev |-> prevAircraftLabels]

NoCall ==
  [fn |-> "none", file |-> ReadError, err |-> FALSE,
   entry |-> [series |-> NoSeries, prev |-> NoLabels]]

\* the goroutine is launched before the initial load
mainProgramGoFirst == <<"go", "load", "wait">>

\* the order of main: initial load, then ticker and goroutine, then wait
mainProgram == <<"load", "go", "wait">>

\* the position at which main enters a phase of its program
enterPhase(phase) == IF phase = "load" THEN "stats" ELSE phase

\* the position of main after the given phase
afterPhase(phase) ==
  LET n == CHOOSE i \in 1..Len(mainProgram) : mainProgram[i] = phase
  IN enterPhase(mainProgram[n + 1])

Init ==
  /\ series = NoSeries
  /\ prevAircraftLabels = NoLabels
  /\ pc = [t \in Threads |->
             IF t = "main" THEN enterPhase(mainProgram[1]) ELSE "unstarted"]
  /\ a = [t \in Threads |-> << >>]
  /\ idx = [t \in Threads |-> 1]
  /\ cur = [t \in Threads |-> NoLabels]
  /\ mu = "free"
  /\ tickC = FALSE
  /\ ticks = 0
  /\ ctxDone = FALSE
  /\ \E r \in Runs : feed = r.feed /\ env = r.env
  /\ call = NoCall
  /\ hist = [stats |-> << >>, aircrafts |-> << >>, failedSince |-> FALSE]

\* the process lives until main returns or panics
Running == pc["main"] \notin {"exited", "panicked"}

\* the ticker and the signal context exist once main is past the launch
Launched == pc["poller"] # "unstarted"

\* safeReadFile + json.Unmarshal: [err, v]
readAndUnmarshal(file, name) ==
  IF file.io = "err" THEN [err |-> TRUE, v |-> Zero(TStruct(name))]
  ELSE Unmarshal(file.json, name)

\* the error is only logged and the zero value is processed
returnsNever(r) == FALSE

\* if err != nil { return err }: no decoded value is used after a failure
returnsEarly(r) == r.err

(***************************************************************************)
(* updateStatsFromFile(statsPath), called by the initial load and by the   *)
(* ticker branch                                                           *)
(***************************************************************************)
updateStatsFromFile(t, file) ==
  /\ UNCHANGED <<feed, env>>
  /\ Running
  /\ pc[t] = "stats"
  /\ LET r == readAndUnmarshal(file, "Stats")
     IN /\ series' = IF returnsEarly(r) THEN series
                     ELSE applyStatsPeriods(series, r.v, Len(Periods))
        /\ call' = [fn |-> "stats", file |-> file, err |-> r.err,
                    entry |-> Snapshot]
  /\ pc' = [pc EXCEPT ![t] = "stats_ret"]
  /\ UNCHANGED <<prevAircraftLabels, a, idx, cur, mu, tickC, ticks, ctxDone,
                 hist>>

\* a failed stats load ends the cycle
afterStatsAbort(err) == IF err THEN "aircrafts_ret" ELSE "aircrafts"

\* where the caller goes on after the stats load: the error is only logged
afterStats(err) == "aircrafts"

\* the caller: if err != nil { log.Printf(...) }, on to the aircraft file
statsReturned(t) ==
  /\ UNCHANGED <<feed, env>>
  /\ Running
  /\ pc[t] = "stats_ret"
  /\ pc' = [pc EXCEPT ![t] = afterStats(call.err)]
  /\ hist' = IF call.err THEN hist ELSE [hist EXCEPT !.stats = <<call.file>>]
  /\ call' = NoCall
  /\ UNCHANGED <<series, prevAircraftLabels, a, idx, cur, mu, tickC, ticks,
                 ctxDone>>

(***************************************************************************)
(* updateAircraftsFromFile(aircraftsPath)                                  *)
(***************************************************************************)
\* read and decode; on an error return it, else enter the loop
updateAircraftsFromFile(t, file) ==
  /\ UNCHANGED <<feed, env>>
  /\ Running
  /\ pc[t] = "aircrafts"
  /\ LET r == readAndUnmarshal(file, "AircraftsFile")
     IN /\ call' = [fn |-> "aircrafts", file |-> file, err |-> r.err,
                    entry |-> Snapshot]
        /\ IF returnsEarly(r)
           THEN /\ pc' = [pc EXCEPT ![t] = "aircrafts_ret"]
                /\ UNCHANGED <<a, idx, cur>>
           ELSE /\ a' = [a EXCEPT ![t] = r.v.aircraft]
                /\ idx' = [idx EXCEPT ![t] = 1]
                /\ cur' = [cur EXCEPT ![t] = NoLabels]
                /\ pc' = [pc EXCEPT ![t] = "publish"]
  /\ UNCHANGED <<series, prevAircraftLabels, mu, tickC, ticks, ctxDone, hist>>

\* the loop may be left at any record
loopDoneAnywhere(t) == TRUE

\* the range over a.Aircraft has no record left
loopDone(t) == idx[t] > Len(a[t])

\* one iteration of: for _, ac := range a.Aircraft
publishAircraft(t) ==
  /\ UNCHANGED <<feed, env>>
  /\ Running
  /\ pc[t] = "publish"
  /\ idx[t] <= Len(a[t])
  /\ cur' = [cur EXCEPT ![t] =
               (KeyOf(a[t][idx[t]]) :> LabelsOf(a[t][idx[t]])) @@ @]
  /\ series' = SetAll(series, AircraftAssign(a[t][idx[t]]))
  /\ idx' = [idx EXCEPT ![t] = @ + 1]
  /\ UNCHANGED <<prevAircraftLabels, pc, a, mu, tickC, ticks, ctxDone, call,
                 hist>>

\* the mutex is not taken
lockedByNobody(t) == "free"

\* the holder of prevAircraftLabelsMu once Lock() has returned to t
lockedBy(t) == t

\* prevAircraftLabelsMu.Lock() after the loop
lockRegistry(t) ==
  /\ UNCHANGED <<feed, env>>
  /\ Running
  /\ pc[t] = "publish"
  /\ loopDone(t)
  /\ mu = "free"
  /\ mu' = lockedBy(t)
  /\ pc' = [pc EXCEPT ![t] = "retract"]
  /\ UNCHANGED <<series, prevAircraftLabels, a, idx, cur, tickC, ticks,
                 ctxDone, call, hist>>

\* every registry entry is taken for stale
staleEntriesAll(t) == DOMAIN prevAircraftLabels

\* no registry entry is taken for stale
staleEntriesNone(t) == {}

\* the registry entries the range loop finds stale
staleEntries(t) == {k \in DOMAIN prevAircraftLabels : k \notin DOMAIN cur[t]}

\* one iteration of the range over prevAircraftLabels that finds k stale
retractStale(t) ==
  /\ UNCHANGED <<feed, env>>
  /\ Running
  /\ pc[t] = "retract"
  /\ \E k \in staleEntries(t) :
       /\ series' = DeleteAll(series, StaleKeys(prevAircraftLabels[k]))
       /\ prevAircraftLabels' =
            [x \in (DOMAIN prevAircraftLabels) \ {k} |-> prevAircraftLabels[x]]
  /\ UNCHANGED <<pc, a, idx, cur, mu, tickC, ticks, ctxDone, call, hist>>

\* prevAircraftLabels[k] = v for every entry of cur, unlock, return nil
replacePrevious(t) ==
  /\ UNCHANGED <<feed, env>>
  /\ Running
  /\ pc[t] = "retract"
  /\ staleEntries(t) = {}
  /\ prevAircraftLabels' = cur[t] @@ prevAircraftLabels
  /\ mu' = "free"
  /\ a' = [a EXCEPT ![t] = << >>]
  /\ idx' = [idx EXCEPT ![t] = 1]
  /\ cur' = [cur EXCEPT ![t] = NoLabels]
  /\ pc' = [pc EXCEPT ![t] = "aircrafts_ret"]
  /\ UNCHANGED <<series, tickC, ticks, ctxDone, call, hist>>

\* where the caller goes on after the aircraft load: the error is only
\* logged; main goes on with its program, the goroutine back to its select
afterAircrafts(t, err) == IF t = "main" THEN afterPhase("load") ELSE "select"

\* the caller: if err != nil { log.Printf(...) }
aircraftsReturned(t) ==
  /\ UNCHANGED <<feed, env>>
  /\ Running
  /\ pc[t] = "aircrafts_ret"
  /\ pc' = [pc EXCEPT ![t] = afterAircrafts(t, call.err)]
  /\ hist' = IF call.fn # "aircrafts" THEN hist
             ELSE IF call.err THEN [hist EXCEPT !.failedSince = TRUE]
             ELSE [hist EXCEPT !.aircrafts = <<call.file>>,
                               !.failedSince = FALSE]
  /\ call' = NoCall
  /\ UNCHANGED <<series, prevAircraftLabels, a, idx, cur, mu, tickC, ticks,
                 ctxDone>>

(***************************************************************************)
(* main: signal context, ticker, poll goroutine                            *)
(***************************************************************************)
\* signal.NotifyContext, time.NewTicker, go func() { for { select ... } }();
\* time.NewTicker panics on a non-positive interval
startPoller ==
  /\ UNCHANGED <<feed, env>>
  /\ pc["main"] = "go"
  /\ pc["poller"] = "unstarted"
  /\ pc' = IF interval(env) <= 0
           THEN [pc EXCEPT !["main"] = "panicked"]
           ELSE [pc EXCEPT !["main"] = afterPhase("go"), !["poller"] = "select"]
  /\ UNCHANGED <<series, prevAircraftLabels, a, idx, cur, mu, tickC, ticks,
                 ctxDone, call, hist>>

\* the ticker delivers a tick into its one-slot channel
tick ==
  /\ UNCHANGED <<feed, env>>
  /\ Running
  /\ Launched
  /\ ~tickC
  /\ ticks < MaxTicks
  /\ tickC' = TRUE
  /\ ticks' = ticks + 1
  /\ UNCHANGED <<series, prevAircraftLabels, pc, a, idx, cur, mu, ctxDone,
                 call, hist>>

\* SIGINT or SIGTERM cancels ctx
signal ==
  /\ UNCHANGED <<feed, env>>
  /\ Running
  /\ Launched
  /\ ~ctxDone
  /\ ctxDone' = TRUE
  /\ UNCHANGED <<series, prevAircraftLabels, pc, a, idx, cur, mu, tickC,
                 ticks, call, hist>>

\* the tick is received and the branch does nothing
tickBranchEmpty == "select"

\* where the goroutine stands after receiving a tick: at the head of the
\* ticker branch, before updateStatsFromFile
tickBranch == "stats"

\* select: case <-ticker.C
selectTick ==
  /\ UNCHANGED <<feed, env>>
  /\ Running
  /\ pc["poller"] = "select"
  /\ tickC
  /\ tickC' = FALSE
  /\ pc' = [pc EXCEPT !["poller"] = tickBranch]
  /\ UNCHANGED <<series, prevAircraftLabels, a, idx, cur, mu, ticks, ctxDone,
                 call, hist>>

\* select: case <-ctx.Done()
selectDone ==
  /\ UNCHANGED <<feed, env>>
  /\ Running
  /\ pc["poller"] = "select"
  /\ ctxDone
  /\ pc' = [pc EXCEPT !["poller"] = "stopped"]
  /\ UNCHANGED <<series, prevAircraftLabels, a, idx, cur, mu, tickC, ticks,
                 ctxDone, call, hist>>

\* main: <-ctx.Done(), server.Shutdown, return; the process is gone
mainExit ==
  /\ UNCHANGED <<feed, env>>
  /\ pc["main"] = "wait"
  /\ ctxDone
  /\ pc' = [pc EXCEPT !["main"] = "exited"]
  /\ UNCHANGED <<series, prevAircraftLabels, a, idx, cur, mu, tickC, ticks,
                 ctxDone, call, hist>>

Next ==
  \/ \E t \in Threads : \E file \in feed.stats : updateStatsFromFile(t, file)
  \/ \E t \in Threads : statsReturned(t)
  \/ \E t \in Threads :
        \E file \in feed.aircrafts : updateAircraftsFromFile(t, file)
  \/ \E t \in Threads : publishAircraft(t)
  \/ \E t \in Threads : lockRegistry(t)
  \/ \E t \in Threads : retractStale(t)
  \/ \E t \in Threads : replacePrevious(t)
  \/ \E t \in Threads : aircraftsReturned(t)
  \/ startPoller
  \/ tick
  \/ signal
  \/ selectTick
  \/ selectDone
  \/ mainExit

Spec == Init /\ [][Next]_vars

\* the steps of the poll goroutine
PollerNext ==
  \/ selectTick
  \/ selectDone
  \/ \E file \in feed.stats : updateStatsFromFile("poller", file)
  \/ statsReturned("poller")
  \/ \E file \in feed.aircrafts : updateAircraftsFromFile("poller", file)
  \/ publishAircraft("poller")
  \/ lockRegistry("poller")
  \/ retractStale("poller")
  \/ replacePrevious("poller")
  \/ aircraftsReturned("poller")

\* the scheduler lets the goroutine run whenever it can take a step
FairSpec == Spec /\ WF_vars(PollerNext)

(***************************************************************************)
(* Vocabulary of the properties                                            *)
(***************************************************************************)
infoFamilies == {AircraftInfo[f] : f \in DOMAIN AircraftInfo}

aircraftFamilies ==
  deletedFamilies \cup {"metricAircraftNavModeActive"} \cup infoFamilies

IsAircraftKey(k) == k[1] \in aircraftFamilies

\* the (hex, flight, category) a series of an aircraft family belongs to
IdentityOf(k) == SubSeq(k[2], 1, 3)

\* the Aircraft slice a file decodes to
\* what each file of the input sets decodes to
decodedAircrafts ==
  [file \in AircraftFiles |-> readAndUnmarshal(file, "AircraftsFile")]
decodedStats == [file \in StatsFiles |-> readAndUnmarshal(file, "Stats")]

AircraftOf(file) ==
  IF file \in AircraftFiles THEN decodedAircrafts[file].v.aircraft
  ELSE readAndUnmarshal(file, "AircraftsFile").v.aircraft

\* the identities of a decoded snapshot
IdsOf(file) == {LabelsOf(AircraftOf(file)[i]) : i \in 1..Len(AircraftOf(file))}
KeysOf(file) == {KeyOf(AircraftOf(file)[i]) : i \in 1..Len(AircraftOf(file))}

RECURSIVE publishFirst(_, _, _)
publishFirst(s, acs, n) ==
  IF n = 0 THEN s
  ELSE SetAll(publishFirst(s, acs, n - 1), AircraftAssign(acs[n]))

\* what the loop over a snapshot publishes, on an empty surface
Projected(file) == publishFirst(NoSeries, AircraftOf(file), Len(AircraftOf(file)))

\* what the five applyStatsPeriod calls publish, on an empty surface
ProjectedStats(file) ==
  applyStatsPeriods(NoSeries, decodedStats[file].v, Len(Periods))

\* some thread is back from the named update function
Returned(fn) == call.fn = fn /\ \E t \in Threads : pc[t] = fn \o "_ret"
AircraftPollDone == Returned("aircrafts") /\ ~call.err
StatsPollDone == Returned("stats") /\ ~call.err
Untouched == series = call.entry.series /\ prevAircraftLabels = call.entry.prev

RECURSIVE SumOver(_, _)
SumOver(keys, s) ==
  IF keys = {} THEN 0
  ELSE LET k == CHOOSE x \in keys : TRUE
       IN s[k] + SumOver(keys \ {k}, s)

(***************************************************************************)
(* C1: an identity of the previous successful aircraft poll that is absent *)
(* from the poll that just completed has no series left in any aircraft    *)
(* family, the info families (squawk, emergency, sil_type) included.       *)
(***************************************************************************)
C1_DisappearedIdentityHasNoSeries ==
  (AircraftPollDone /\ hist.aircrafts # << >>) =>
     \A k \in DOMAIN series :
        IsAircraftKey(k) =>
          IdentityOf(k) \notin IdsOf(hist.aircrafts[1]) \ IdsOf(call.file)

(***************************************************************************)
(* C2: no step ever removes a series of an identity that the poll in       *)
(* flight carries: whatever a step removes is an aircraft series, removed  *)
(* in the retract phase, of an identity absent from the snapshot.          *)
(***************************************************************************)
C2_PersistingNeverRetracted ==
  [][\A k \in (DOMAIN series) \ (DOMAIN series') :
        \E t \in Threads :
           /\ pc[t] = "retract"
           /\ IsAircraftKey(k)
           /\ IdentityOf(k) \notin {LabelsOf(a[t][i]) : i \in 1..Len(a[t])}]_vars

\* a poll has retracted something while series of an identity it carries
\* were exposed before it and still are
C2_Witness ==
  /\ AircraftPollDone
  /\ \E k \in DOMAIN call.entry.series : k \notin DOMAIN series
  /\ \E k \in (DOMAIN call.entry.series) \cap (DOMAIN series) :
        IsAircraftKey(k) /\ IdentityOf(k) \in IdsOf(call.file)

(***************************************************************************)
(* C3: a call whose read or decode failed has returned with the metric     *)
(* surface and the registry exactly as they were at its entry.             *)
(***************************************************************************)
C3_FailedPollTouchesNothing ==
  ((Returned("stats") \/ Returned("aircrafts")) /\ call.err) => Untouched

\* an aircraft call has failed over a populated surface and registry
C3_Witness ==
  /\ Returned("aircrafts")
  /\ call.err
  /\ prevAircraftLabels # NoLabels
  /\ \E k \in DOMAIN series : IsAircraftKey(k)

(***************************************************************************)
(* C4: after a successful poll, every series of an identity that was also  *)
(* in the previous successful poll carries the value this poll's record    *)
(* projects (none carries a value only the earlier record supplied).       *)
(***************************************************************************)
C4_PersistingIdentityShowsLatestRecord ==
  (AircraftPollDone /\ hist.aircrafts # << >>) =>
     \A k \in DOMAIN series :
        (/\ IsAircraftKey(k)
         /\ IdentityOf(k) \in IdsOf(hist.aircrafts[1]) \cap IdsOf(call.file))
        => (/\ k \in DOMAIN Projected(call.file)
            /\ series[k] = Projected(call.file)[k])

(***************************************************************************)
(* C5: when a successful aircraft poll returns, the keys of the registry   *)
(* are exactly the identity keys of the entities of that poll.             *)
(***************************************************************************)
C5_RegistryIsPublishedKeys ==
  AircraftPollDone => DOMAIN prevAircraftLabels = KeysOf(call.file)

\* a poll has returned with a non-empty registry that lost an earlier key
C5_Witness ==
  /\ AircraftPollDone
  /\ prevAircraftLabels # NoLabels
  /\ \E k \in DOMAIN call.entry.prev : k \notin DOMAIN prevAircraftLabels

(***************************************************************************)
(* C6: a snapshot that is not well-formed JSON, whose top-level value is   *)
(* not an object, or that lacks the aircraft field is rejected as a decode *)
(* failure and retracts nothing.                                           *)
(***************************************************************************)
InvalidEntitySnapshot(file) ==
  /\ file.io = "ok"
  /\ \/ file.json.t # "obj"
     \/ "aircraft" \notin DOMAIN file.json.o

C6_InvalidSnapshotRejected ==
  (Returned("aircrafts") /\ InvalidEntitySnapshot(call.file))
  => (call.err /\ Untouched)

(***************************************************************************)
(* C7: a snapshot that is well formed but for one wrongly-typed field of   *)
(* one record does not fail the poll, and everything else it carries is    *)
(* published.                                                              *)
(***************************************************************************)
WrongFields(rec) ==
  {f \in (DOMAIN rec.o) \cap (DOMAIN Aircraft) : decode(Aircraft[f], rec.o[f]).err}

WithoutWrongFields(rec) ==
  Obj([f \in (DOMAIN rec.o) \ WrongFields(rec) |-> rec.o[f]])

OneWrongField(file) ==
  /\ file.io = "ok"
  /\ file.json.t = "obj"
  /\ "aircraft" \in DOMAIN file.json.o
  /\ file.json.o.aircraft.t = "arr"
  /\ LET recs == file.json.o.aircraft.a
     IN /\ \A i \in 1..Len(recs) : recs[i].t = "obj"
        /\ \E i \in 1..Len(recs) :
              /\ Cardinality(WrongFields(recs[i])) = 1
              /\ \A j \in (1..Len(recs)) \ {i} : WrongFields(recs[j]) = {}

Repaired(file) ==
  AircraftDoc([i \in 1..Len(file.json.o.aircraft.a) |->
                 WithoutWrongFields(file.json.o.aircraft.a[i])])

C7_WrongFieldDoesNotFailPoll ==
  (Returned("aircrafts") /\ OneWrongField(call.file))
  => /\ ~call.err
     /\ \A k \in DOMAIN Projected(Repaired(call.file)) :
           k \in DOMAIN series /\ series[k] = Projected(Repaired(call.file))[k]

(***************************************************************************)
(* C8: a successful poll of the file that the previous successful poll of  *)
(* the same kind read leaves registry, exposed series and values as they   *)
(* were.                                                                   *)
(***************************************************************************)
C8_SamePollTwiceChangesNothing ==
  /\ (AircraftPollDone /\ hist.aircrafts = <<call.file>>) => Untouched
  /\ (StatsPollDone /\ hist.stats = <<call.file>>) => Untouched

\* an aircraft snapshot with entities has been polled twice in a row
C8_Witness ==
  /\ AircraftPollDone
  /\ hist.aircrafts = <<call.file>>
  /\ prevAircraftLabels # NoLabels
  /\ hist.stats # << >>

(***************************************************************************)
(* C9: for each period and origin, the exposed accepted-total series       *)
(* equals the sum of the exposed accepted-by-errors series of that period. *)
(***************************************************************************)
AcceptedFamilies ==
  {<<"metricsLocalAcceptedTotal", "metricsLocalAcceptedByErrors">>,
   <<"metricsRemoteAcceptedTotal", "metricsRemoteAcceptedByErrors">>}

C9_AcceptedTotalIsSumOfExposed ==
  \A fam \in AcceptedFamilies : \A n \in 1..Len(Periods) :
     LET byErrors == {k \in DOMAIN series :
                        k[1] = fam[2] /\ k[2][1] = Periods[n]}
         total == <<fam[1], <<Periods[n]>>>>
     IN IF total \in DOMAIN series
        THEN series[total] = SumOver(byErrors, series)
        ELSE byErrors = {}

(***************************************************************************)
(* C10: after a successful poll no series with a snapshot-derived label    *)
(* is exposed that this poll did not project.                              *)
(***************************************************************************)
indexedStatsFamilies ==
  {"metricsAdaptiveGainSeconds", "metricsLocalAcceptedByErrors",
   "metricsRemoteAcceptedByErrors", "metricsMessagesByDF"}

C10_NoStaleLabelledSeries ==
  /\ AircraftPollDone =>
       \A k \in DOMAIN series :
          k[1] \in infoFamilies => k \in DOMAIN Projected(call.file)
  /\ StatsPollDone =>
       \A k \in DOMAIN series :
          k[1] \in indexedStatsFamilies => k \in DOMAIN ProjectedStats(call.file)

(***************************************************************************)
(* Navigation modes                                                        *)
(***************************************************************************)
\* the nav-mode SeriesKey of an identity and a flag name
NavKey(labels, mode) == <<"metricAircraftNavModeActive", labels \o <<mode>>>>

\* the record carries a nav_modes value
HasNavModes(ac) == ac.nav_modes.t # "null"

\* the flag name occurs as a string of the record's nav_modes array
FlagOccurs(ac, mode) ==
  /\ ac.nav_modes.t = "arr"
  /\ \E n \in 1..Len(ac.nav_modes.a) : ac.nav_modes.a[n] = Str(mode)

\* record i is the last record of its identity in acs that carries nav_modes
LastWithNavModes(acs, i) ==
  /\ HasNavModes(acs[i])
  /\ \A j \in (i + 1)..Len(acs) :
       LabelsOf(acs[j]) = LabelsOf(acs[i]) => ~HasNavModes(acs[j])

\* C11: when a successful aircraft poll returns, every record of the snapshot
\* that carries nav_modes has, for each of the six known flag names, its
\* nav-mode series exposed with 1 if the flag name occurs in the array and 0
\* if not, and no nav-mode series under any other flag name.
C11_NavModesOnePerKnownFlag ==
  AircraftPollDone =>
    LET acs == AircraftOf(call.file)
    IN \A i \in 1..Len(acs) :
         LastWithNavModes(acs, i) =>
           /\ \A mode \in possibleModes :
                /\ NavKey(LabelsOf(acs[i]), mode) \in DOMAIN series
                /\ series[NavKey(LabelsOf(acs[i]), mode)] =
                     (IF FlagOccurs(acs[i], mode) THEN 1 ELSE 0)
           /\ \A k \in DOMAIN series :
                (k[1] = "metricAircraftNavModeActive"
                   /\ IdentityOf(k) = LabelsOf(acs[i]))
                => k[2][4] \in possibleModes

\* a successful poll has returned whose snapshot holds a record with two
\* known flags, an unknown flag and a non-string element, and a record with
\* an empty array
C11_Witness ==
  /\ AircraftPollDone
  /\ LET acs == AircraftOf(call.file)
     IN /\ \E i \in 1..Len(acs) :
             /\ FlagOccurs(acs[i], "autopilot") /\ FlagOccurs(acs[i], "tcas")
             /\ FlagOccurs(acs[i], "warp")
             /\ series[NavKey(LabelsOf(acs[i]), "tcas")] = 1
             /\ series[NavKey(LabelsOf(acs[i]), "vnav")] = 0
        /\ \E i \in 1..Len(acs) :
             /\ HasNavModes(acs[i]) /\ acs[i].nav_modes.a = << >>
             /\ series[NavKey(LabelsOf(acs[i]), "tcas")] = 0

\* record i is the last record of its identity in acs
LastOfIdentity(acs, i) ==
  \A j \in (i + 1)..Len(acs) : LabelsOf(acs[j]) # LabelsOf(acs[i])

\* C12: when a successful aircraft poll returns, every identity of the
\* snapshot has, for each of the six known flag names, its nav-mode series
\* exposed, with 1 if the flag occurs in the nav_modes array of its record and
\* 0 if not, also when the record has no nav_modes or a null one.
C12_NavModesExplicitEveryPoll ==
  AircraftPollDone =>
    LET acs == AircraftOf(call.file)
    IN \A i \in 1..Len(acs) :
         LastOfIdentity(acs, i) =>
           \A mode \in possibleModes :
             /\ NavKey(LabelsOf(acs[i]), mode) \in DOMAIN series
             /\ series[NavKey(LabelsOf(acs[i]), mode)] =
                  (IF FlagOccurs(acs[i], mode) THEN 1 ELSE 0)

(***************************************************************************)
(* Stats periods                                                           *)
(***************************************************************************)
MessagesKey(name) == <<"metricsMessages", <<name>>>>

\* the Stats value a file decodes to
StatsOf(file) ==
  IF file \in StatsFiles THEN decodedStats[file].v
  ELSE readAndUnmarshal(file, "Stats").v

\* the file holds the latest period only, and in it a message counter only
OnlyLatestWithCounter(file) ==
  /\ file.io = "ok"
  /\ file.json.t = "obj"
  /\ DOMAIN file.json.o = {"latest"}
  /\ file.json.o["latest"].t = "obj"
  /\ DOMAIN file.json.o["latest"].o = {"messages"}
  /\ file.json.o["latest"].o["messages"].t = "num"

\* C13: when a successful stats poll of a file that holds only the latest
\* period with a message counter returns, and the surface was empty at its
\* entry, the surface holds the latest-period message-count series and no
\* other series.
C13_OnlyLatestPublishesOnlyLatest ==
  (StatsPollDone /\ call.entry.series = NoSeries
     /\ OnlyLatestWithCounter(call.file))
  => DOMAIN series = {MessagesKey("latest")}

\* C14: when a successful stats poll returns, the message-count series of
\* each of the five periods is exposed with the counter the file decodes to
\* for that period, zero included.
C14_MessagesOfAllPeriodsPublished ==
  StatsPollDone =>
    \A n \in 1..Len(Periods) :
      /\ MessagesKey(Periods[n]) \in DOMAIN series
      /\ series[MessagesKey(Periods[n])] = StatsOf(call.file)[Periods[n]].messages

\* a successful stats poll has returned whose file carries a non-zero
\* counter, an explicit zero counter and no last1min period, after a poll
\* that had published a non-zero total counter
C14_Witness ==
  /\ StatsPollDone
  /\ call.file.json.o["latest"].o["messages"] = Num(0)
  /\ StatsOf(call.file).total.messages > 0
  /\ "last1min" \notin DOMAIN call.file.json.o
  /\ MessagesKey("latest") \in DOMAIN call.entry.series
  /\ call.entry.series[MessagesKey("latest")] > 0
  /\ series[MessagesKey("latest")] = 0
  /\ series[MessagesKey("last1min")] = 0

SubRecords == {"local", "remote", "cpu", "cpr", "adaptive"}

\* a period object without its sub-records that are empty objects
WithoutEmptySubs(period) ==
  IF period.t # "obj" THEN period
  ELSE Obj([f \in {g \in DOMAIN period.o :
                     ~(g \in SubRecords /\ period.o[g] = EmptyObj)}
             |-> period.o[f]])

\* a stats file with every empty-object sub-record removed from its periods
StripEmptySubs(file) ==
  IF file.io = "ok" /\ file.json.t = "obj"
  THEN FileBytes(Obj([n \in DOMAIN file.json.o |->
                        WithoutEmptySubs(file.json.o[n])]))
  ELSE file

\* C15: a successful stats poll leaves the surface it would leave had every
\* sub-record that is an empty object been absent from the file.
C15_EmptySubRecordLikeAbsent ==
  StatsPollDone =>
    series = applyStatsPeriods(call.entry.series,
                               StatsOf(StripEmptySubs(call.file)),
                               Len(Periods))

(***************************************************************************)
(* Poll cycles and shutdown                                                *)
(***************************************************************************)
\* thread t is inside a stats+aircraft reconciliation
InCycle(t) ==
  pc[t] \in {"stats", "stats_ret", "aircrafts", "publish", "retract",
             "aircrafts_ret"}

\* C16: at every moment at most one thread is inside a stats+aircraft
\* reconciliation (the startup poll of main or a ticker-driven poll of the
\* goroutine), and the registry lock is free or held by the one thread that
\* is retracting.
C16_CyclesNeverOverlap ==
  /\ Cardinality({t \in Threads : InCycle(t)}) <= 1
  /\ mu # "free" => (pc[mu] = "retract" /\ \A t \in Threads \ {mu} : ~InCycle(t))

\* the goroutine is publishing in a ticker-driven cycle while the ticker has
\* already delivered the next tick, main waiting for the signal after a
\* startup poll that succeeded
C16_Witness ==
  /\ pc["poller"] = "publish"
  /\ pc["main"] = "wait"
  /\ tickC
  /\ hist.aircrafts # << >>

\* C17: once ctx is done, the goroutine never leaves its select for a new
\* poll cycle, a pending tick or not.
C17_NoCycleAfterSignal ==
  [][ctxDone => ~(pc["poller"] = "select" /\ pc'["poller"] = "stats")]_vars

\* thread t has begun the work of a cycle and has not finished it
Partway(t) == pc[t] \in {"stats_ret", "aircrafts", "publish", "retract"}

\* C18: main has not returned while the goroutine is partway through a poll
\* cycle.
C18_CycleCompletesBeforeExit ==
  pc["main"] = "exited" => ~Partway("poller")

\* the registry keys of the latest successful aircraft poll before the call
\* in flight
LastSuccessfulKeys ==
  IF hist.aircrafts = << >> THEN {} ELSE KeysOf(hist.aircrafts[1])

\* the registry entries the returned poll has removed
Retracted == (DOMAIN call.entry.prev) \ (DOMAIN prevAircraftLabels)

\* a successful aircraft poll started from the registry of the latest
\* successful poll and removed from it exactly the entries whose key the new
\* snapshot lacks, with their series
DiffsAgainstLastSuccessful ==
  AircraftPollDone =>
    /\ DOMAIN call.entry.prev = LastSuccessfulKeys
    /\ Retracted = LastSuccessfulKeys \ KeysOf(call.file)
    /\ DOMAIN prevAircraftLabels = KeysOf(call.file)
    /\ \A k \in Retracted :
         \A sk \in StaleKeys(call.entry.prev[k]) : sk \notin DOMAIN series

\* a thread stands at the end of a cycle only by having returned from the
\* aircraft load, and main has returned only after the signal: no failed load
\* ends a cycle early or the process
FailureDoesNotEndCycle ==
  /\ \A t \in Threads : pc[t] = "aircrafts_ret" => call.fn = "aircrafts"
  /\ pc["main"] = "exited" => ctxDone

\* C19: no cycle ends without its aircraft load, a failed stats load before
\* it or not, and no failed load ends the process; and every successful
\* aircraft poll, failed polls in between or not, starts from the registry of
\* the latest successful poll and retracts exactly its entries that are
\* absent from the new snapshot.
C19_FileFailuresIsolated ==
  FailureDoesNotEndCycle /\ DiffsAgainstLastSuccessful

\* a successful aircraft poll has returned that retracted an entry, in a
\* cycle whose stats load failed like every stats load before it, after an
\* aircraft poll had failed since the latest successful one
C19_Witness ==
  /\ AircraftPollDone
  /\ hist.failedSince
  /\ hist.stats = << >>
  /\ Retracted # {}

(***************************************************************************)
(* Uniqueness of the projection                                            *)
(***************************************************************************)
\* C20: when a successful aircraft poll returns, no two (SeriesKey, value)
\* pairs that the records of its snapshot project have the same SeriesKey and
\* different values.
C20_ProjectedKeysUnique ==
  AircraftPollDone =>
    LET acs == AircraftOf(call.file)
    IN \A i, j \in 1..Len(acs) :
         \A p \in AircraftAssign(acs[i]), q \in AircraftAssign(acs[j]) :
           p[1] = q[1] => p[2] = q[2]

(***************************************************************************)
(* Numeric coercion                                                        *)
(***************************************************************************)
\* C21: for every value a poll passes to numericFromInterface, the result is
\* either not present, or present with a finite float: never present with
\* NaN or an infinity.
C21_CoercionTotalAndFinite ==
  \A t \in Threads : \A i \in 1..Len(a[t]) : \A f \in DOMAIN AircraftIface :
    LET r == numericFromInterface(a[t][i][f])
    IN /\ r.ok \in BOOLEAN
       /\ r.ok => IsFinite(r.f)

\* the value is a string that is neither a decimal numeral nor a spelling
\* of a non-finite value
NonNumericString(v) ==
  /\ v.t = "str"
  /\ \A n \in Numerals : ToString(n) # v.s
  /\ v.s \notin {"NaN", "nan", "Inf", "inf", "+Inf", "-Inf", "+inf", "-inf",
                 "Infinity", "infinity"}

\* the identity of record i occurs once in acs
OnceInSnapshot(acs, i) ==
  \A j \in 1..Len(acs) : LabelsOf(acs[j]) = LabelsOf(acs[i]) => j = i

\* the series of key k is as it was when the call was entered
AsAtEntry(k) ==
  IF k \in DOMAIN call.entry.series
  THEN k \in DOMAIN series /\ series[k] = call.entry.series[k]
  ELSE k \notin DOMAIN series

\* C22: when a successful aircraft poll returns, for every record whose
\* alt_baro is a non-numeric string (its identity occurring once in the
\* snapshot) the barometric-altitude series of the identity is as it was
\* before the poll, and the series of its numeric alt_geom, of each of its
\* non-nil pointer fields, of its message count and of its non-empty info
\* fields carry the record's values.
C22_GroundSkipsOnlyAltBaro ==
  AircraftPollDone =>
    LET acs == AircraftOf(call.file)
    IN \A i \in 1..Len(acs) :
         (NonNumericString(acs[i].alt_baro) /\ OnceInSnapshot(acs, i)) =>
           LET ac == acs[i]
               labels == LabelsOf(ac)
               shows(k, x) == k \in DOMAIN series /\ series[k] = x
           IN /\ AsAtEntry(<<"metricAircraftAltBaro", labels>>)
              /\ ac.alt_geom.t = "num"
                 => shows(<<"metricAircraftAltGeom", labels>>, ac.alt_geom.n)
              /\ \A f \in DOMAIN AircraftPtr :
                   ac[f].set => shows(<<AircraftPtr[f], labels>>, ac[f].v)
              /\ shows(<<"metricAircraftMessages", labels>>, ac.messages)
              /\ \A f \in DOMAIN AircraftInfo :
                   ac[f] # "" => shows(<<AircraftInfo[f], labels \o <<ac[f]>>>>, 1)

\* a successful poll has returned whose record of A has alt_baro "ground";
\* the poll before had published a barometric altitude for A, and the
\* record's alt_geom, track, message count and squawk are exposed
C22_Witness ==
  /\ AircraftPollDone
  /\ LET acs == AircraftOf(call.file)
     IN \E i \in 1..Len(acs) :
          /\ acs[i].alt_baro = Str("ground")
          /\ OnceInSnapshot(acs, i)
          /\ <<"metricAircraftAltBaro", LabelsOf(acs[i])>> \in DOMAIN series
          /\ series[<<"metricAircraftAltGeom", LabelsOf(acs[i])>>] = 8
          /\ series[<<"metricAircraftTrack", LabelsOf(acs[i])>>] = 2
          /\ series[<<"metricAircraftMessages", LabelsOf(acs[i])>>] = 6

(***************************************************************************)
(* Phases of an aircraft poll and the registry lock                        *)
(***************************************************************************)
\* C23: while a thread is publishing, nothing has been retracted since its
\* call was entered (no series removed, the registry untouched); and while a
\* thread is retracting, its loop over the snapshot is over and every
\* SeriesKey the snapshot projects is exposed.
C23_PublishBeforeRetract ==
  \A t \in Threads :
    /\ (Running /\ pc[t] = "publish") =>
         /\ DOMAIN call.entry.series \subseteq DOMAIN series
         /\ prevAircraftLabels = call.entry.prev
    /\ (Running /\ pc[t] = "retract") =>
         /\ idx[t] = Len(a[t]) + 1
         /\ \A i \in 1..Len(a[t]) :
              \A p \in AircraftAssign(a[t][i]) : p[1] \in DOMAIN series

\* a thread is retracting with a stale entry left, after its loop has
\* published a snapshot of two records
C23_Witness ==
  \E t \in Threads :
    /\ pc[t] = "retract"
    /\ Len(a[t]) >= 2
    /\ staleEntries(t) # {}
    /\ series # call.entry.series

\* a thread holds the lock exactly while it stands between Lock() and the
\* return, where the registry is ranged over, retracted from and replaced
HeldWhileRetracting ==
  \A t \in Threads : (mu = t) <=> (pc[t] = "retract")

\* a step that changes the registry is taken by the holder of the lock, who
\* keeps it or gives it up in that step by returning
WrittenUnderLock ==
  prevAircraftLabels' # prevAircraftLabels =>
    /\ mu \in Threads
    /\ pc[mu] = "retract"
    /\ \/ mu' = mu /\ pc'[mu] = "retract"
       \/ mu' = "free" /\ pc'[mu] = "aircrafts_ret"

\* C24: the registry is read and written only by the thread that holds
\* prevAircraftLabelsMu, and that thread holds it from before the first
\* retraction until the replacement is done: the lock is never free between
\* a retraction and the replacement.
C24_RegistryOnlyUnderLock ==
  []HeldWhileRetracting /\ [][WrittenUnderLock]_vars

\* a thread has retracted an entry and not yet replaced the registry, the
\* lock in its hand
C24_Witness ==
  \E t \in Threads :
    /\ pc[t] = "retract"
    /\ mu = t
    /\ DOMAIN prevAircraftLabels # DOMAIN call.entry.prev

(***************************************************************************)
(* Startup cycle and ticker cycles                                         *)
(***************************************************************************)
\* the ticker loop exists only after main's startup cycle, and main runs no
\* cycle after it; no tick is delivered before the loop exists
StartupCycleFirst ==
  /\ Launched => ~InCycle("main")
  /\ ~Launched => (ticks = 0 /\ ~tickC)

\* the goroutine enters a cycle exactly in the steps that take a tick out of
\* ticker.C
CyclePerTick ==
  (pc["poller"] # "stats" /\ pc'["poller"] = "stats") <=> (tickC /\ ~tickC')

\* C25: main runs one cycle before the ticker loop exists and none after;
\* the goroutine starts a cycle in exactly the steps that receive a tick;
\* and, the goroutine being scheduled fairly, every delivered tick leads to
\* the start of a cycle or to the shutdown signal.
C25_StartupThenCyclePerTick ==
  /\ []StartupCycleFirst
  /\ [][CyclePerTick]_vars
  /\ (tickC ~> (pc["poller"] = "stats" \/ ctxDone))

\* the goroutine stands at the head of the cycle of the second tick, no
\* signal received, main waiting after its startup cycle
C25_Witness ==
  /\ pc["poller"] = "stats"
  /\ ticks = 2
  /\ ~tickC
  /\ ~ctxDone
  /\ pc["main"] = "wait"

(***************************************************************************)
(* gain_seconds                                                            *)
(***************************************************************************)
\* the gain_seconds map of a decoded period, empty without adaptive
GainSecondsOf(p) == IF p.adaptive.set THEN p.adaptive.v.gain_seconds ELSE EmptyMap

\* the entry has two elements or more and its first two coerce to numbers
Projectable(arr) ==
  /\ Len(arr) >= 2
  /\ numericFromInterface(arr[1]).ok
  /\ numericFromInterface(arr[2]).ok

\* the gain_seconds SeriesKeys of a period and a step the poll has added
AddedFor(name, step) ==
  {k \in (DOMAIN series) \ (DOMAIN call.entry.series) :
     /\ k[1] = "metricsAdaptiveGainSeconds"
     /\ k[2][1] = name
     /\ k[2][2] = step}

\* C26: when a successful stats poll returns, every gain_seconds entry with
\* two elements or more whose first two coerce is exposed under (period,
\* step, rendered first element) with the coerced second element as value,
\* the poll has added no other series for that step, and for every other
\* entry it has added none; the message counter of the period is published
\* whatever its entries are.
C26_GainSecondsProjectedIffCoercible ==
  StatsPollDone =>
    \A n \in 1..Len(Periods) :
      LET name == Periods[n]
          p == StatsOf(call.file)[name]
          gs == GainSecondsOf(p)
      IN /\ series[MessagesKey(name)] = p.messages
         /\ \A step \in DOMAIN gs :
              LET key == <<"metricsAdaptiveGainSeconds",
                           <<name, step,
                             Sprintv(numericFromInterface(gs[step][1]).f)>>>>
              IN IF Projectable(gs[step])
                 THEN /\ key \in DOMAIN series
                      /\ series[key] = numericFromInterface(gs[step][2]).f
                      /\ AddedFor(name, step) \subseteq {key}
                 ELSE AddedFor(name, step) = {}

\* a successful stats poll on a surface without gain_seconds series has
\* returned, of a file with entries of two numbers, two numeric strings,
\* one element, a non-numeric first element, a boolean second element, three
\* elements and none: three of them are exposed
C26_Witness ==
  /\ StatsPollDone
  /\ call.entry.series = NoSeries
  /\ LET gs == GainSecondsOf(StatsOf(call.file).latest)
     IN /\ DOMAIN gs = {"s0", "s1", "s2", "s3", "s4", "s5", "s6"}
        /\ {step \in DOMAIN gs : AddedFor("latest", step) # {}}
             = {"s0", "s1", "s5"}
        /\ series[<<"metricsAdaptiveGainSeconds", <<"latest", "s1", "7">>>>] = 8

\* the record carries a nav_modes value that is not an array
NavModesNotArray(ac) == ac.nav_modes.t \notin {"null", "arr"}

\* C27: a returned aircraft poll of a snapshot whose records decode has not
\* failed, and for every record of it whose nav_modes is present and not an
\* array, all six known nav-mode series of its identity are exposed with 0.
C27_NonArrayNavModesAllZero ==
  Returned("aircrafts") =>
    LET acs == AircraftOf(call.file)
    IN (\E i \in 1..Len(acs) : NavModesNotArray(acs[i])) =>
         /\ ~call.err
         /\ \A i \in 1..Len(acs) :
              (NavModesNotArray(acs[i]) /\ LastWithNavModes(acs, i)) =>
                \A mode \in possibleModes :
                  /\ NavKey(LabelsOf(acs[i]), mode) \in DOMAIN series
                  /\ series[NavKey(LabelsOf(acs[i]), mode)] = 0

\* a successful poll has returned whose snapshot holds a record with the
\* string "autopilot" as nav_modes and one with an object
C27_Witness ==
  /\ AircraftPollDone
  /\ LET acs == AircraftOf(call.file)
     IN /\ \E i \in 1..Len(acs) :
             /\ acs[i].nav_modes = Str("autopilot")
             /\ series[NavKey(LabelsOf(acs[i]), "autopilot")] = 0
        /\ \E i \in 1..Len(acs) :
             /\ acs[i].nav_modes.t = "obj"
             /\ series[NavKey(LabelsOf(acs[i]), "autopilot")] = 0

(***************************************************************************)
(* Poll interval                                                           *)
(***************************************************************************)
\* the value spells a positive whole number
PositiveWhole(v) == \E n \in 1..MaxInt : ToString(n) = v

\* the positive whole number the value spells
WholeOf(v) == CHOOSE n \in 1..MaxInt : ToString(n) = v

\* C28: once main is past time.NewTicker, it has not panicked there and the
\* interval of the ticker is the value of INTERVAL_SECONDS in seconds when
\* that spells a positive whole number and five seconds when it does not.
C28_IntervalConfiguredOrDefault ==
  pc["main"] \in {"wait", "exited", "panicked"} =>
    /\ pc["main"] # "panicked"
    /\ interval(env) = (IF PositiveWhole(env) THEN WholeOf(env) * Second
                        ELSE DefaultIntervalSec * Second)

\* C29: for every value v a poll passes to numericFromInterface with result
\* (x, present), numericFromInterface of the float x is (x, present) again.
C29_CoercionIdempotent ==
  /\ \A t \in Threads : \A i \in 1..Len(a[t]) : \A f \in DOMAIN AircraftIface :
       LET r == numericFromInterface(a[t][i][f])
       IN r.ok => numericFromInterface(Num(r.f)) = [ok |-> TRUE, f |-> r.f]
  /\ Returned("stats") =>
       \A n \in 1..Len(Periods) :
         LET gs == GainSecondsOf(StatsOf(call.file)[Periods[n]])
         IN \A step \in DOMAIN gs : \A e \in 1..Len(gs[step]) :
              LET r == numericFromInterface(gs[step][e])
              IN r.ok => numericFromInterface(Num(r.f)) = [ok |-> TRUE, f |-> r.f]

\* a poll in flight holds a record whose alt_geom is the numeric string "7"
\* and whose alt_baro is the string "NaN"
C29_Witness ==
  \E t \in Threads :
    /\ pc[t] = "publish"
    /\ \E i \in 1..Len(a[t]) :
         /\ a[t][i].alt_geom = Str("7")
         /\ a[t][i].alt_baro = Str("NaN")
         /\ numericFromInterface(a[t][i].alt_geom) = [ok |-> TRUE, f |-> 7]

(***************************************************************************)
(* Registry keys                                                           *)
(***************************************************************************)
\* C30: when a successful aircraft poll returns, two records of its snapshot
\* with different (hex, flight, category) have different registry keys, and
\* the registry holds one entry per identity of the snapshot, each with the
\* labels of that identity.
C30_RegistryKeyInjective ==
  AircraftPollDone =>
    LET acs == AircraftOf(call.file)
    IN /\ \A i, j \in 1..Len(acs) :
            LabelsOf(acs[i]) # LabelsOf(acs[j]) => KeyOf(acs[i]) # KeyOf(acs[j])
       /\ {prevAircraftLabels[k] : k \in DOMAIN prevAircraftLabels}
            = IdsOf(call.file)

(***************************************************************************)
(* Empty snapshot                                                          *)
(***************************************************************************)
\* the file decodes and carries an aircraft array without elements
EmptyAircraftArray(file) ==
  /\ file.io = "ok"
  /\ file.json.t = "obj"
  /\ "aircraft" \in DOMAIN file.json.o
  /\ file.json.o.aircraft = Arr(<< >>)

\* C31: a returned aircraft poll of a snapshot with an empty aircraft array
\* has not failed, has left the registry empty and has left no series of an
\* aircraft family exposed for any identity the registry held at its entry;
\* a returned poll that failed has left surface and registry as they were.
C31_EmptySnapshotRetractsAll ==
  /\ (Returned("aircrafts") /\ EmptyAircraftArray(call.file)) =>
       /\ ~call.err
       /\ prevAircraftLabels = NoLabels
       /\ \A k \in DOMAIN series :
            IsAircraftKey(k) =>
              IdentityOf(k) \notin
                {call.entry.prev[x] : x \in DOMAIN call.entry.prev}
  /\ (Returned("aircrafts") /\ call.err) => Untouched

====
